---------------------------- MODULE Spec2Model ----------------------------
(***************************************************************************)
(* Model of the activation quantizer of autotrain/trainers/clm/__main__.py *)
(* (function train): the STEFunction_structured autograd function, the     *)
(* activation_hook forward hook and the loop that registers it.            *)
(*                                                                         *)
(* Numbers.  A tensor element is a real number kept as a sign and the      *)
(* base-2 logarithm of its magnitude, the logarithm being an integer count *)
(* of 1/Unit steps:  [sgn |-> 1, lg |-> 53] is +2^(53/Unit).  Zero is      *)
(* [sgn |-> 0, lg |-> 0].  Unit is a quarter of the finest step, so         *)
(* that every rounding of the code (to 1/4, 1/16 and 1/64), its ties       *)
(* included, is computed exactly.  A value in the log domain (the result   *)
(* of torch.log2) is [k |-> "num", v |-> n] for n/Unit, or NaN (log2 of a  *)
(* negative number), or NegInf (log2 of zero).                             *)
(***************************************************************************)
EXTENDS Integers, Sequences, FiniteSets

VARIABLES
    pc,           \* position in train() (or in a direct call of the function)
    i,            \* index of the registration loop in model.named_modules()
    hooks,        \* per module, the number of forward hooks attached to it
    step,         \* training steps done by trainer.train()
    dir,          \* the pass a training step is in: "fwd" or "bwd"
    pos,          \* the module the pass is at
    raw,          \* the output of that module's own forward
    delivered,    \* what the module call hands to its consumers
    input,        \* argument of the STEFunction_structured.forward call
    output,       \* value returned by that call (NoValue before it returns)
    printed,      \* whether the call printed "Out of shape"
    grad_output,  \* argument of STEFunction_structured.backward
    grad_input    \* value returned by backward

vars == <<pc, i, hooks, step, dir, pos, raw, delivered,
          input, output, printed, grad_output, grad_input>>

(***************************************************************************)
(* Values passed to and returned by the autograd function: a tensor (its   *)
(* rank, len(shape), and its elements in index order), a tuple of tensors, *)
(* or nothing yet.                                                         *)
(***************************************************************************)
Tensor(r, d) == [kind |-> "tensor", rank |-> r, data |-> d, members |-> <<>>]

Tuple(ms) == [kind |-> "tuple", rank |-> 0, data |-> <<>>, members |-> ms]

NoValue == [kind |-> "none", rank |-> 0, data |-> <<>>, members |-> <<>>]

(***************************************************************************)
(* Quantization configuration, lines 390-409.                              *)
(***************************************************************************)
num_bit_mantissa == 5

threshold_mantissa == 2 ^ (num_bit_mantissa - 1)

num_frac_low_prec == 2

num_frac_high_prec == num_frac_low_prec + 2

scale_low_prec == 2 ^ num_frac_low_prec

scale_high_prec == 2 ^ num_frac_high_prec

num_frac_highest_prec == num_frac_high_prec + 2

scale_highest_prec == 2 ^ num_frac_highest_prec

\* Resolution of the model's logarithms: a quarter step of the finest scale.
Unit == 4 * scale_highest_prec

Zero == [sgn |-> 0, lg |-> 0]

Real(s, l) == [sgn |-> s, lg |-> l]

\* a NaN element (no sign, no magnitude): never equal to a number
NotANumber == [sgn |-> 0, lg |-> 1]

\* float(2**threshold_mantissa) and float(2**-(threshold_mantissa))
threshold_up == Real(1, threshold_mantissa * Unit)

threshold_down == Real(1, -(threshold_mantissa * Unit))

(***************************************************************************)
(* The torch operations the quantizer uses, on one element.                *)
(***************************************************************************)
Num(n) == [k |-> "num", v |-> n]

NaN == [k |-> "nan", v |-> 0]

NegInf == [k |-> "ninf", v |-> 0]

\* torch.abs
Abs(x) == IF x.sgn = 0 THEN Zero ELSE Real(1, x.lg)

\* unary minus
Neg(x) == Real(-x.sgn, x.lg)

\* x < y on reals
Less(x, y) ==
    IF x.sgn < y.sgn THEN TRUE
    ELSE IF x.sgn > y.sgn THEN FALSE
    ELSE IF x.sgn = 1 THEN x.lg < y.lg
    ELSE IF x.sgn = -1 THEN x.lg > y.lg
    ELSE FALSE

\* mutant of ClampMin: the upper bound forgotten
ClampMinOnly(x, lo, hi) == IF Less(x, lo) THEN lo ELSE x

\* torch.clamp(x, min=lo, max=hi)
ClampMin(x, lo, hi) == IF Less(x, lo) THEN lo ELSE IF Less(hi, x) THEN hi ELSE x

\* torch.log2: NaN below zero, -inf at zero
Log2(x) == IF x.sgn > 0 THEN Num(x.lg) ELSE IF x.sgn < 0 THEN NaN ELSE NegInf

\* a > b on log-domain floats: every comparison with NaN is False
Gt(a, b) ==
    IF a.k = "nan" \/ b.k = "nan" THEN FALSE
    ELSE IF a.k = "ninf" THEN FALSE
    ELSE IF b.k = "ninf" THEN TRUE
    ELSE a.v > b.v

\* a - c for an integer number c of log2 units
Minus(a, c) == IF a.k = "num" THEN Num(a.v - c * Unit) ELSE a

\* mutant of RoundHalfEven: truncation toward minus infinity
RoundDown(n, d) == n \div d

\* torch.round of n/d, d > 0: to the nearest integer, a tie to the even one
RoundHalfEven(n, d) ==
    LET q == n \div d
        r == n % d
    IN  IF 2 * r < d THEN q
        ELSE IF 2 * r > d THEN q + 1
        ELSE IF q % 2 = 0 THEN q ELSE q + 1

\* torch.round(a * scale) / scale
RoundScale(a, scale) ==
    IF a.k = "num"
    THEN Num(RoundHalfEven(a.v, Unit \div scale) * (Unit \div scale))
    ELSE a

\* torch.pow(2, e) for a finite e (the code raises 2 only to selected,
\* finite exponents; pow(2, -inf) is 0)
Pow2(e) == IF e.k = "num" THEN Real(1, e.v) ELSE IF e.k = "ninf" THEN Zero ELSE NotANumber

\* torch.max over the elements of a log-domain tensor: NaN propagates
RECURSIVE MaxFrom(_, _, _)
MaxFrom(logs, idx, best) ==
    IF idx = {} THEN best
    ELSE LET j == CHOOSE x \in idx : TRUE
         IN  MaxFrom(logs, idx \ {j}, IF Gt(logs[j], best) THEN logs[j] ELSE best)

TorchMax(logs, idx) ==
    IF \E j \in idx : logs[j].k = "nan" THEN NaN
    ELSE MaxFrom(logs, idx, NegInf)

(***************************************************************************)
(* STEFunction_structured.forward, lines 426-471.                          *)
(***************************************************************************)
\* mutant of ClampSigned: the sign not put back
ClampUnsigned(x) == ClampMin(Abs(x), threshold_down, threshold_up)

\* lines 436-437 (and line 430): clamp the magnitude, put the sign back
ClampSigned(x) ==
    LET clamped_output == ClampMin(Abs(x), threshold_down, threshold_up)
    IN  IF Less(x, Zero) THEN Neg(clamped_output) ELSE clamped_output

ClampData(data) == [k \in DOMAIN data |-> ClampSigned(data[k])]

\* mutant of QuantExponent: the boundaries compared with >= instead of >
QuantExponentInclusive(log_x, max_val) ==
    IF Gt(log_x, Minus(max_val, 5)) \/ log_x = Minus(max_val, 5)
    THEN IF Gt(log_x, Minus(max_val, 3)) \/ log_x = Minus(max_val, 3)
         THEN RoundScale(log_x, scale_highest_prec)
         ELSE RoundScale(log_x, scale_high_prec)
    ELSE RoundScale(log_x, scale_low_prec)

\* lines 446-451 (and the nested torch.where of line 431): the exponent
\* rounded at the scale the distance to max_val selects
QuantExponent(log_x, max_val) ==
    IF Gt(log_x, Minus(max_val, 5))
    THEN IF Gt(log_x, Minus(max_val, 3))
         THEN RoundScale(log_x, scale_highest_prec)
         ELSE RoundScale(log_x, scale_high_prec)
    ELSE RoundScale(log_x, scale_low_prec)

\* mutant of QuantizeNonZero: the values are written back in the opposite
\* order of the indices
QuantizeNonZeroReversed(data) ==
    LET non_zero_indices == {k \in DOMAIN data : data[k].sgn # 0}
        log_x == [k \in DOMAIN data |->
                    IF Less(Zero, data[k]) THEN Log2(data[k]) ELSE Log2(Neg(data[k]))]
        max_val == TorchMax(log_x, non_zero_indices)
        quantized_values == [k \in DOMAIN data |->
                    IF Less(Zero, data[k])
                    THEN Pow2(QuantExponent(log_x[k], max_val))
                    ELSE Neg(Pow2(QuantExponent(log_x[k], max_val)))]
    IN  IF non_zero_indices # {}
        THEN [k \in DOMAIN data |->
                IF k \in non_zero_indices
                THEN quantized_values[Len(data) + 1 - k]
                ELSE data[k]]
        ELSE data

\* lines 441-454 (rank 3) and 456-468 (rank 2): the same statements
QuantizeNonZero(data) ==
    LET non_zero_indices == {k \in DOMAIN data : data[k].sgn # 0}
        log_x == [k \in DOMAIN data |->
                    IF Less(Zero, data[k]) THEN Log2(data[k]) ELSE Log2(Neg(data[k]))]
        max_val == TorchMax(log_x, non_zero_indices)
        quantized_values == [k \in DOMAIN data |->
                    IF Less(Zero, data[k])
                    THEN Pow2(QuantExponent(log_x[k], max_val))
                    ELSE Neg(Pow2(QuantExponent(log_x[k], max_val)))]
    IN  IF non_zero_indices # {}
        THEN [k \in DOMAIN data |->
                IF k \in non_zero_indices THEN quantized_values[k] ELSE data[k]]
        ELSE data

\* mutant of ForwardTensor: the rank is tested before the clamp
ForwardTensorRankFirst(t) ==
    IF t.rank \in {2, 3}
    THEN [value |-> Tensor(t.rank, QuantizeNonZero(ClampData(t.data))), printed |-> FALSE]
    ELSE [value |-> t, printed |-> TRUE]

\* lines 434-471: the single-tensor branch; printed is the "Out of shape" line
ForwardTensor(t) ==
    LET out == ClampData(t.data)
    IN  IF t.rank = 3 THEN [value |-> Tensor(t.rank, QuantizeNonZero(out)), printed |-> FALSE]
        ELSE IF t.rank = 2 THEN [value |-> Tensor(t.rank, QuantizeNonZero(out)), printed |-> FALSE]
        ELSE [value |-> Tensor(t.rank, out), printed |-> TRUE]

\* line 431, one member t of the tuple: torch.log2 and torch.max are taken
\* over the whole member, of t on the positive side and of -t on the negative
TupleQuantize(data) ==
    LET all == DOMAIN data
        log_pos == [k \in all |-> Log2(data[k])]
        log_neg == [k \in all |-> Log2(Neg(data[k]))]
    IN  [k \in all |->
            IF Less(Zero, data[k])
            THEN Pow2(QuantExponent(log_pos[k], TorchMax(log_pos, all)))
            ELSE IF Less(data[k], Zero)
                 THEN Neg(Pow2(QuantExponent(log_neg[k], TorchMax(log_neg, all))))
                 ELSE data[k]]

\* lines 429-432: the tuple branch
ForwardTuple(ms) ==
    [j \in DOMAIN ms |-> Tensor(ms[j].rank, TupleQuantize(ClampData(ms[j].data)))]

\* lines 426-471
STEForward(in) ==
    IF in.kind = "tuple"
    THEN [value |-> Tuple(ForwardTuple(in.members)), printed |-> FALSE]
    ELSE ForwardTensor(in)

\* mutant of WriteBack: the values are written into the tensor passed in
WriteBackToInput(store, values) == [store EXCEPT !.input = values]

\* lines 454 and 468: the indexed assignment writes into the tensor the
\* name output is bound to, which since line 437 is the one torch.where
\* built
WriteBack(store, values) == [store EXCEPT !.where = values]

\* lines 434-471, the tensors held when the call returns: the one passed
\* in, its clone of line 434, and the one torch.where built in line 437
ForwardStore(t) ==
    LET clone == t.data
        store == [input |-> t.data, clone |-> clone, where |-> ClampData(clone)]
    IN  IF t.rank \in {2, 3}
        THEN WriteBack(store, QuantizeNonZero(store.where))
        ELSE store

\* the caller's tensor(s) after forward; lines 429-431 clone every tuple
\* member and build new tensors from the clones, with no assignment into
\* a tensor
InputAfterForward(in) ==
    IF in.kind = "tuple" THEN in ELSE Tensor(in.rank, ForwardStore(in).input)

\* the caller's gradient after backward; line 476 clones it and nothing
\* is assigned into it
GradOutputAfterBackward(g) == g

\* mutant of STEBackward: the gradient quantized like an activation
STEBackwardQuantized(g) == STEForward(g).value

\* lines 474-477: grad_output.clone()
STEBackward(g) == g

(***************************************************************************)
(* Bounds and the inputs drawn within them.                                *)
(***************************************************************************)
\* elements of a tensor passed alone
MaxLen == 2

\* elements of a tuple, all members together
MaxTupleElems == 3

\* log2 magnitudes, in 1/Unit: beyond both clamp bounds, and 10.207, 7.207,
\* 6.207, 5.207, which lie 3, 4 and 5 apart and round to three different
\* values at the three scales
LogMags == {17 * Unit, 10 * Unit + 53, 7 * Unit + 53, 6 * Unit + 53,
            5 * Unit + 53, -(17 * Unit)}

Values == {Zero} \cup {Real(s, l) : s \in {-1, 1}, l \in LogMags}

TupleValues == {Zero, Real(1, 17 * Unit), Real(1, 10 * Unit + 53),
                Real(-1, 6 * Unit + 53)}

Ranks == {1, 2, 3, 4}

TupleRanks == {2, 3}

DataOfLen(S, n) == [1..n -> S]

\* the single tensors of at most max elements
SingleInputs(max) ==
    {Tensor(r, d) : r \in Ranks, d \in UNION {DataOfLen(Values, n) : n \in 1..max}}

\* the tuples of tensors holding n elements in all
RECURSIVE TuplesOfTotal(_)
TuplesOfTotal(n) ==
    IF n = 0 THEN {<<>>}
    ELSE UNION {{<<Tensor(r, d)>> \o rest :
                    r \in TupleRanks, d \in DataOfLen(TupleValues, j),
                    rest \in TuplesOfTotal(n - j)} : j \in 1..n}

\* the tuples of at most max elements in all
TupleInputs(max) == {Tuple(ms) : ms \in UNION {TuplesOfTotal(n) : n \in 1..max}}

\* elements of a tensor drawn from BoundaryMags
MaxBoundaryLen == 3

\* log2 magnitudes around the tier boundaries under a maximum of 10.207:
\* 7.207 and 5.207 lie on the boundaries, 5.195 just under the lower one
\* and 5.211 just over it
BoundaryMags == {10 * Unit + 53, 7 * Unit + 53, 5 * Unit + 53, 5 * Unit + 50,
                 5 * Unit + 54}

\* the positive matrices of at most max elements with these magnitudes
BoundaryInputs(max) ==
    {Tensor(r, d) : r \in {2, 3},
                    d \in UNION {DataOfLen({Real(1, l) : l \in BoundaryMags}, n) :
                                    n \in 1..max}}

Grads == {Tensor(2, <<v>>) : v \in {Zero, Real(1, 53), Real(-1, 17 * Unit)}}

(***************************************************************************)
(* The autograd function called directly: forward on any input, then       *)
(* either forward again on the returned value, or backward on any upstream *)
(* gradient.                                                               *)
(***************************************************************************)
InitApply ==
    /\ pc = "apply"
    /\ i = 0
    /\ hooks = <<>>
    /\ step = 0
    /\ dir = "fwd"
    /\ pos = 0
    /\ raw = NoValue
    /\ delivered = NoValue
    /\ input \in SingleInputs(MaxLen) \cup TupleInputs(MaxTupleElems)
                    \cup BoundaryInputs(MaxBoundaryLen)
    /\ output = NoValue
    /\ printed = FALSE
    /\ grad_output = NoValue
    /\ grad_input = NoValue

Forward ==
    /\ pc = "apply"
    /\ output' = STEForward(input).value
    /\ printed' = STEForward(input).printed
    /\ input' = InputAfterForward(input)
    /\ pc' = "applied"
    /\ UNCHANGED <<i, hooks, step, dir, pos, raw, delivered, grad_output, grad_input>>

\* autograd hands backward the gradient of the returned value
UpstreamGradient ==
    /\ pc = "applied"
    /\ grad_output' \in Grads
    /\ pc' = "grad"
    /\ UNCHANGED <<i, hooks, step, dir, pos, raw, delivered, input, output, printed,
                   grad_input>>

Backward ==
    /\ pc = "grad"
    /\ grad_input' = STEBackward(grad_output)
    /\ grad_output' = GradOutputAfterBackward(grad_output)
    /\ pc' = "backpropagated"
    /\ UNCHANGED <<i, hooks, step, dir, pos, raw, delivered, input, output, printed>>

\* the caller passes the returned value to the function again
Reapply ==
    /\ pc = "applied"
    /\ input' = InputAfterForward(output)
    /\ output' = STEForward(output).value
    /\ printed' = STEForward(output).printed
    /\ pc' = "reapplied"
    /\ UNCHANGED <<i, hooks, step, dir, pos, raw, delivered, grad_output, grad_input>>

NextApply == Forward \/ Reapply \/ UpstreamGradient \/ Backward

SpecApply == InitApply /\ [][NextApply]_vars

(***************************************************************************)
(* The model being trained, as model.named_modules() lists it: each        *)
(* module once, parents first.  A name is kept as its pieces, the dotted   *)
(* name being their concatenation; cls is the module's class; children     *)
(* says whether list(module.children()) is non-empty.                      *)
(***************************************************************************)
Module(n, c, ch) == [name |-> n, cls |-> c, children |-> ch]

named_modules ==
    << Module(<<>>, "GPT2LMHeadModel", TRUE),
       Module(<<"transformer">>, "GPT2Model", TRUE),
       Module(<<"transformer", "wte">>, "Embedding", FALSE),
       Module(<<"transformer", "drop">>, "Dropout", FALSE),
       Module(<<"transformer", "h">>, "ModuleList", TRUE),
       Module(<<"transformer", "h", "0">>, "GPT2Block", TRUE),
       Module(<<"transformer", "h", "0", "ln_1">>, "LayerNorm", FALSE),
       Module(<<"transformer", "h", "0", "attn">>, "Linear", FALSE),
       Module(<<"transformer", "h", "0", "mlp">>, "GPT2MLP", TRUE),
       Module(<<"transformer", "h", "0", "mlp", "c_fc">>, "Linear", FALSE),
       Module(<<"transformer", "h", "0", "mlp", "intermediate_act_fn">>, "NewGELUActivation", FALSE),
       Module(<<"transformer", "h", "0", "mlp", "intermediate_act_fn", "proj">>, "Linear", FALSE),
       Module(<<"transformer", "h", "0", "mlp", "act">>, "GELU", FALSE),
       Module(<<"transformer", "h", "0", "mlp", "silu">>, "SiLU", FALSE),
       Module(<<"transformer", "acts">>, "Sequential", TRUE),
       Module(<<"transformer", "acts", "0">>, "ReLU", FALSE),
       Module(<<"transformer", "acts", "1">>, "Tanh", FALSE),
       Module(<<"transformer", "acts", "2">>, "Sigmoid", FALSE),
       Module(<<"transformer", "acts", "3">>, "Softmax", FALSE),
       Module(<<"transformer", "acts", "4">>, "LeakyReLU", FALSE),
       Module(<<"transformer", "acts", "5">>, "PReLU", FALSE),
       Module(<<"transformer", "empty">>, "ModuleList", FALSE),
       Module(<<"lm_head">>, "Linear", FALSE) >>

NumModules == Len(named_modules)

\* isinstance(module, cls): the classes of the model are unrelated
IsInstance(module, cls) == module.cls = cls

\* "intermediate_act_fn" in name
NameContains(name, piece) == \E k \in DOMAIN name : name[k] = piece

\* line 483
EXCLUDED_ACTIVATIONS == {"ReLU", "Tanh", "GELU", "Sigmoid", "Softmax", "LeakyReLU", "PReLU"}

\* mutant of Qualifies: the test of the name forgotten
QualifiesByTypeOnly(module) ==
    /\ ~IsInstance(module, "ModuleList")
    /\ ~module.children
    /\ ~IsInstance(module, "LayerNorm")
    /\ ~IsInstance(module, "Dropout")
    /\ ~\E activation \in EXCLUDED_ACTIVATIONS : IsInstance(module, activation)

\* line 486: the condition of the registration loop
Qualifies(module) ==
    /\ ~IsInstance(module, "ModuleList")
    /\ ~module.children
    /\ ~NameContains(module.name, "intermediate_act_fn")
    /\ ~IsInstance(module, "LayerNorm")
    /\ ~IsInstance(module, "Dropout")
    /\ ~\E activation \in EXCLUDED_ACTIVATIONS : IsInstance(module, activation)

\* mutant of RegisterForwardHook: the hook attached twice
RegisterForwardHookTwice(h, m) ==
    IF Qualifies(named_modules[m]) THEN [h EXCEPT ![m] = @ + 2] ELSE h

\* lines 486-487: one pass of the loop body over module m
RegisterForwardHook(h, m) ==
    IF Qualifies(named_modules[m]) THEN [h EXCEPT ![m] = @ + 1] ELSE h

\* mutant of CallHooks: what the hooks return is dropped
CallHooksDiscard(n, out) == out

\* lines 479-481, run by the module call once per attached hook: each
\* hook's return value replaces the output
RECURSIVE CallHooks(_, _)
CallHooks(n, out) ==
    IF n = 0 THEN out ELSE CallHooks(n - 1, STEForward(out).value)

(***************************************************************************)
(* train(): the registration loop, the creation of the trainer, then       *)
(* trainer.train(), whose training steps run a forward pass through the    *)
(* modules and a backward pass back through them.                          *)
(***************************************************************************)
\* training steps of trainer.train()
MaxSteps == 2

\* outputs a module's own forward may produce
ModuleOutputs ==
    {Tensor(3, <<Real(1, 10 * Unit + 53), Real(-1, 5 * Unit + 53)>>),
     Tensor(2, <<Zero, Real(-1, 7 * Unit + 53)>>),
     Tensor(1, <<Real(1, 17 * Unit)>>),
     Tuple(<<Tensor(2, <<Real(1, 10 * Unit + 53), Real(-1, 7 * Unit + 53)>>)>>)}

Init ==
    /\ pc = "register"
    /\ i = 1
    /\ hooks = [m \in 1..NumModules |-> 0]
    /\ step = 0
    /\ dir = "fwd"
    /\ pos = 1
    /\ raw = NoValue
    /\ delivered = NoValue
    /\ input = NoValue
    /\ output = NoValue
    /\ printed = FALSE
    /\ grad_output = NoValue
    /\ grad_input = NoValue

\* lines 485-487: one iteration of the loop
RegisterStep ==
    /\ pc = "register"
    /\ i <= NumModules
    /\ hooks' = RegisterForwardHook(hooks, i)
    /\ i' = i + 1
    /\ UNCHANGED <<pc, step, dir, pos, raw, delivered,
                   input, output, printed, grad_output, grad_input>>

\* line 485: the loop ends when named_modules() is exhausted
RegisterDone ==
    /\ pc = "register"
    /\ i > NumModules
    /\ pc' = "trainer"
    /\ UNCHANGED <<i, hooks, step, dir, pos, raw, delivered,
                   input, output, printed, grad_output, grad_input>>

\* lines 491-577: the trainer is built; no hook is attached or removed
CreateTrainer ==
    /\ pc = "trainer"
    /\ pc' = "train"
    /\ UNCHANGED <<i, hooks, step, dir, pos, raw, delivered,
                   input, output, printed, grad_output, grad_input>>

\* line 579, forward pass: module pos runs its forward, then its hooks
ModuleForward ==
    /\ pc = "train"
    /\ dir = "fwd"
    /\ step < MaxSteps
    /\ \E o \in ModuleOutputs :
          /\ raw' = o
          /\ delivered' = CallHooks(hooks[pos], o)
          /\ IF hooks[pos] > 0
             THEN /\ input' = InputAfterForward(o)
                  /\ output' = STEForward(o).value
                  /\ printed' = STEForward(o).printed
             ELSE UNCHANGED <<input, output, printed>>
    /\ IF pos < NumModules
       THEN pos' = pos + 1 /\ dir' = dir
       ELSE pos' = pos /\ dir' = "bwd"
    /\ UNCHANGED <<pc, i, hooks, step, grad_output, grad_input>>

\* line 579, backward pass: the gradient reaches module pos; a hooked
\* module's output node runs STEFunction_structured.backward
ModuleBackward ==
    /\ pc = "train"
    /\ dir = "bwd"
    /\ IF hooks[pos] > 0
       THEN \E g \in Grads :
               /\ grad_output' = GradOutputAfterBackward(g)
               /\ grad_input' = STEBackward(g)
       ELSE UNCHANGED <<grad_output, grad_input>>
    /\ IF pos > 1
       THEN pos' = pos - 1 /\ dir' = dir /\ step' = step
       ELSE pos' = pos /\ dir' = "fwd" /\ step' = step + 1
    /\ UNCHANGED <<pc, i, hooks, raw, delivered, input, output, printed>>

\* line 579 returns
TrainDone ==
    /\ pc = "train"
    /\ dir = "fwd"
    /\ step = MaxSteps
    /\ pc' = "done"
    /\ UNCHANGED <<i, hooks, step, dir, pos, raw, delivered,
                   input, output, printed, grad_output, grad_input>>

Next ==
    \/ RegisterStep
    \/ RegisterDone
    \/ CreateTrainer
    \/ ModuleForward
    \/ ModuleBackward
    \/ TrainDone

Spec == Init /\ [][Next]_vars

(***************************************************************************)
(* What the properties below read off a finished forward call.             *)
(***************************************************************************)
\* the forward call has returned
Called == output.kind # "none"

\* the call was of one tensor of rank 2 or 3
CalledOnMatrix == Called /\ input.kind = "tensor" /\ input.rank \in {2, 3}

\* every <<input element, output element>> of the call, over all members
Pairs ==
    IF input.kind = "tensor"
    THEN {<<input.data[k], output.data[k]>> : k \in DOMAIN input.data}
    ELSE UNION {{<<input.members[j].data[k], output.members[j].data[k]>> :
                    k \in DOMAIN input.members[j].data} : j \in DOMAIN input.members}

Dist(a, b) == IF a >= b THEN a - b ELSE b - a

\* the largest log2 magnitude among the nonzero elements of data
MaxLog(data) ==
    LET logs == {data[k].lg : k \in {n \in DOMAIN data : data[n].sgn # 0}}
    IN  CHOOSE m \in logs : \A l \in logs : l <= m

\* the scale the selection rule gives an element at log_x under max_val
TierScale(log_x, max_val) ==
    IF log_x > max_val - 3 * Unit THEN 2 ^ 6
    ELSE IF log_x > max_val - 5 * Unit THEN 2 ^ 4
    ELSE 2 ^ 2

\* q is log_x rounded to the nearest multiple of 1/scale
RoundedAt(log_x, q, scale) ==
    /\ q % (Unit \div scale) = 0
    /\ 2 * Dist(q, log_x) <= Unit \div scale

(***************************************************************************)
(* C1.  For a single tensor of rank 2 or 3, every element v of the clamped *)
(* tensor, with log_x = log2|v| and max_val the largest log2 magnitude of  *)
(* the tensor's nonzero elements, comes out rounded at the Highest scale   *)
(* 2^6 if log_x > max_val - 3, at the High scale 2^4 if                    *)
(* max_val - 5 < log_x <= max_val - 3, and at the Low scale 2^2 otherwise. *)
(***************************************************************************)
C1_TierSelection ==
    CalledOnMatrix =>
        LET clamped == ClampData(input.data)
        IN  \A k \in DOMAIN clamped :
                clamped[k].sgn # 0 =>
                    /\ output.data[k].sgn = clamped[k].sgn
                    /\ RoundedAt(clamped[k].lg, output.data[k].lg,
                                 TierScale(clamped[k].lg, MaxLog(clamped)))

\* the element at the maximum is rounded at 1/64, the one 5 below at 1/4
C1_Witness ==
    /\ pc = "applied"
    /\ input = Tensor(3, <<Real(1, 10 * Unit + 53), Real(-1, 5 * Unit + 53)>>)
    /\ output = Tensor(3, <<Real(1, 10 * Unit + 52), Real(-1, 5 * Unit + 64)>>)

(***************************************************************************)
(* C2.  Zero pass-through: every element that is 0 in the input (single    *)
(* tensor or tuple member) is 0 in the output of the forward call.         *)
(***************************************************************************)
C2_ZeroPassThrough ==
    Called => \A p \in Pairs : p[1] = Zero => p[2] = Zero

(***************************************************************************)
(* C3.  Sign preservation: every nonzero input element (single tensor or   *)
(* tuple member) comes out with the same sign, strictly negative or        *)
(* strictly positive, after the clamp and the rounding.                    *)
(***************************************************************************)
C3_SignPreserved ==
    Called => \A p \in Pairs : p[1].sgn # 0 => p[2].sgn = p[1].sgn

\* a tuple member with a negative and a positive element, both moved by
\* the rounding
C3_Witness ==
    /\ Called
    /\ input.kind = "tuple"
    /\ \E p, q \in Pairs :
          /\ p[1].sgn = -1 /\ p[2].sgn = -1 /\ p[2].lg # p[1].lg
          /\ q[1].sgn = 1 /\ q[2].sgn = 1 /\ q[2].lg # q[1].lg

GridPoint(log_x, q, scale) ==
    /\ (q * scale) % Unit = 0
    /\ 2 * scale * Dist(q, log_x) <= Unit

C6_BackwardIdentity ==
    pc = "backpropagated" => grad_input = grad_output

\* a gradient off every grid and outside no clamp bound comes back as it
\* was, after a forward call that did move its input
C6_Witness ==
    /\ pc = "backpropagated"
    /\ grad_output = Tensor(2, <<Real(1, 53)>>)
    /\ grad_input = Tensor(2, <<Real(1, 53)>>)
    /\ output # input

(***************************************************************************)
(* C7.  Tuple/single-tensor equivalence: for a tuple input the result is a *)
(* tuple of the same length and order whose every member equals what the   *)
(* forward call returns for that member passed alone.                      *)
(***************************************************************************)
C7_TupleAsSingle ==
    (Called /\ input.kind = "tuple") =>
        /\ output.kind = "tuple"
        /\ Len(output.members) = Len(input.members)
        /\ \A j \in DOMAIN input.members :
              output.members[j] = ForwardTensor(input.members[j]).value

(***************************************************************************)
(* C8.  Rank rejection: given a tensor whose rank is not 2 or 3, the call  *)
(* fails with an error and returns no tensor value.                        *)
(***************************************************************************)
C8_RankRejected ==
    (pc # "apply" /\ input.kind = "tensor" /\ input.rank \notin {2, 3}) =>
        output.kind = "none"

(***************************************************************************)
(* C9.  Registration set: after the registration loop a module has the     *)
(* hook attached if and only if it has no children, is not a ModuleList,   *)
(* its name does not contain "intermediate_act_fn", and it is no LayerNorm *)
(* (the normalization module), no Dropout and none of ReLU, Tanh, GELU,    *)
(* Sigmoid, Softmax, LeakyReLU, PReLU; so a normalization module, a        *)
(* dropout module and a module named ...intermediate_act_fn... are never   *)
(* registered and a plain leaf linear module always is.                    *)
(***************************************************************************)
Hooked(m) == hooks[m] > 0

Marked(m) == NameContains(named_modules[m].name, "intermediate_act_fn")

ShouldBeHooked(m) ==
    /\ named_modules[m].children = FALSE
    /\ named_modules[m].cls \notin
          {"ModuleList", "LayerNorm", "Dropout", "ReLU", "Tanh", "GELU",
           "Sigmoid", "Softmax", "LeakyReLU", "PReLU"}
    /\ ~Marked(m)

PassStarted ==
    \/ step > 0
    \/ dir # "fwd"
    \/ pos # 1
    \/ raw # NoValue
    \/ grad_output # NoValue

C10_RegistrationOnce ==
    /\ [](PassStarted => (pc \in {"train", "done"} /\ i = NumModules + 1))
    /\ [](pc # "register" =>
            \A m \in 1..NumModules :
                hooks[m] = IF ShouldBeHooked(m) THEN 1 ELSE 0)
    /\ [][i' \in {i, i + 1}]_vars
    /\ [][pc # "register" => hooks' = hooks]_vars

\* training has run to its end, forward and backward, with lm_head hooked
\* once
C10_Witness ==
    /\ pc = "done"
    /\ step = MaxSteps
    /\ grad_input # NoValue
    /\ delivered # NoValue
    /\ hooks[NumModules] = 1

(***************************************************************************)
(* C11.  Idempotence: a second forward call on the result of a first, the  *)
(* tiers selected anew against the quantized tensor's maximum, leaves      *)
(* unchanged exactly the elements that are representable at the tier the   *)
(* second call assigns them, that is, multiples of 1/scale in log2.  The   *)
(* claim as first stated has every element so representable and the whole  *)
(* rank-2 or rank-3 tensor returned unchanged.                             *)
(***************************************************************************)
\* the second call has returned, input being the result of the first
Recalled == pc = "reapplied" /\ input.kind = "tensor" /\ input.rank \in {2, 3}

\* element k of the quantized tensor lies on the grid of its second tier
OnAssignedGrid(data, k) ==
    GridPoint(data[k].lg, data[k].lg, TierScale(data[k].lg, MaxLog(data)))

C11_IdempotentOnAssignedGrid ==
    Recalled =>
        \A k \in DOMAIN input.data :
            output.data[k] = input.data[k] <=> OnAssignedGrid(input.data, k)

\* the claim as first stated
C11_Idempotent ==
    Recalled =>
        /\ \A k \in DOMAIN input.data : OnAssignedGrid(input.data, k)
        /\ output = input

\* 2^10.207 and 2^5.211 gave 2^10.203 and, at the High scale, 2^5.1875;
\* under the lower maximum 5.1875 is of the Low tier and moves to 5.25,
\* while the maximum stays
C11_Witness ==
    /\ pc = "reapplied"
    /\ input = Tensor(2, <<Real(1, 10 * Unit + 52), Real(1, 5 * Unit + 48)>>)
    /\ output = Tensor(2, <<Real(1, 10 * Unit + 52), Real(1, 5 * Unit + 64)>>)

(***************************************************************************)
(* C12.  Tie resolution: an element whose log-magnitude lies exactly on a  *)
(* tier boundary is assigned the coarser of the two bordering tiers:       *)
(* log_x = max_val - 3 is rounded at the High scale 2^4 and                *)
(* log_x = max_val - 5 at the Low scale 2^2.  The claim as first stated    *)
(* assigns the finer one: Highest at max_val - 3, High at max_val - 5.     *)
(***************************************************************************)
\* the elements of the clamped tensor that lie apart below its maximum
OnBoundary(clamped, apart) ==
    {k \in DOMAIN clamped :
        clamped[k].sgn # 0 /\ clamped[k].lg = MaxLog(clamped) - apart * Unit}

C12_TieToCoarser ==
    CalledOnMatrix =>
        LET clamped == ClampData(input.data)
        IN  /\ \A k \in OnBoundary(clamped, 3) :
                  GridPoint(clamped[k].lg, output.data[k].lg, 2 ^ 4)
            /\ \A k \in OnBoundary(clamped, 5) :
                  GridPoint(clamped[k].lg, output.data[k].lg, 2 ^ 2)

\* the claim as first stated
C12_TieToFiner ==
    CalledOnMatrix =>
        LET clamped == ClampData(input.data)
        IN  /\ \A k \in OnBoundary(clamped, 3) :
                  GridPoint(clamped[k].lg, output.data[k].lg, 2 ^ 6)
            /\ \A k \in OnBoundary(clamped, 5) :
                  GridPoint(clamped[k].lg, output.data[k].lg, 2 ^ 4)

\* under the maximum 10.207, 7.207 comes out as 7.1875 (1/16 step, where
\* the 1/64 step gives 7.203) and 5.207 as 5.25 (1/4 step, where the 1/16
\* step gives 5.1875)
C12_Witness ==
    /\ pc = "applied"
    /\ input = Tensor(2, <<Real(1, 10 * Unit + 53), Real(1, 7 * Unit + 53),
                           Real(1, 5 * Unit + 53)>>)
    /\ output = Tensor(2, <<Real(1, 10 * Unit + 52), Real(1, 7 * Unit + 48),
                            Real(1, 5 * Unit + 64)>>)

(***************************************************************************)
(* C13.  Output replacement: in every forward pass over the modules, what  *)
(* a hooked module hands to the modules after it is the quantized value    *)
(* activation_hook returned for its raw output, never the raw output, and  *)
(* what a module without the hook hands on is its raw output; the hook has *)
(* run when the module's call returns, so before the next module's         *)
(* forward.                                                                *)
(***************************************************************************)
\* the module whose forward ran last
LastRun == IF dir = "fwd" /\ pos > 1 THEN pos - 1 ELSE NumModules

C13_OutputReplaced ==
    (pc \in {"train", "done"} /\ raw # NoValue) =>
        delivered = IF Hooked(LastRun) THEN STEForward(raw).value ELSE raw

\* a hooked module has run and the next one is about to: it is handed the
\* quantized tensor, which differs from the raw one
C13_Witness ==
    /\ pc = "train"
    /\ dir = "fwd"
    /\ pos > 1
    /\ Hooked(pos - 1)
    /\ raw = Tensor(3, <<Real(1, 10 * Unit + 53), Real(-1, 5 * Unit + 53)>>)
    /\ delivered = Tensor(3, <<Real(1, 10 * Unit + 52), Real(-1, 5 * Unit + 64)>>)

(***************************************************************************)
(* C14.  Unsupported-rank fallback: given a single tensor whose rank is    *)
(* not 2 or 3, forward prints the diagnostic and returns the clamped       *)
(* tensor, not rounded: every nonzero element keeps its sign and has its   *)
(* magnitude brought into [2^-16, 2^16], and a zero comes out as +2^-16.   *)
(* The claim as first stated has the returned tensor equal to the input,   *)
(* no clamping applied.                                                    *)
(***************************************************************************)
\* the call was of one tensor of a rank without a branch
CalledOnOtherRank == Called /\ input.kind = "tensor" /\ input.rank \notin {2, 3}

\* y is x with its magnitude brought into [2^-16, 2^16]
ClampedTo(x, y) ==
    IF x.sgn = 0 THEN y = Real(1, -(16 * Unit))
    ELSE /\ y.sgn = x.sgn
         /\ y.lg = IF x.lg > 16 * Unit THEN 16 * Unit
                   ELSE IF x.lg < -(16 * Unit) THEN -(16 * Unit)
                   ELSE x.lg

C14_OtherRankClamped ==
    CalledOnOtherRank =>
        /\ printed
        /\ output.kind = "tensor"
        /\ output.rank = input.rank
        /\ DOMAIN output.data = DOMAIN input.data
        /\ \A k \in DOMAIN input.data : ClampedTo(input.data[k], output.data[k])

\* the claim as first stated
C14_OtherRankUntouched ==
    CalledOnOtherRank => (printed /\ output = input)

\* of a rank-1 tensor, 2^17 comes out as 2^16 and -2^10.207, off every
\* grid, as it went in
C14_Witness ==
    /\ pc = "applied"
    /\ printed
    /\ input = Tensor(1, <<Real(1, 17 * Unit), Real(-1, 10 * Unit + 53)>>)
    /\ output = Tensor(1, <<Real(1, 16 * Unit), Real(-1, 10 * Unit + 53)>>)

(***************************************************************************)
(* C15.  Order preservation: for two nonzero elements a and b of the same  *)
(* rank-2 or rank-3 tensor that are assigned the same tier, |a| <= |b|     *)
(* gives |q(a)| <= |q(b)|.  The claim as first stated drops the condition  *)
(* on the tier: it holds the order also of elements on opposite sides of a *)
(* tier boundary, rounded at different scales.                             *)
(***************************************************************************)
\* the pairs <<k, l>> of nonzero input elements with |input[k]| <= |input[l]|
Ordered ==
    {p \in (DOMAIN input.data) \X (DOMAIN input.data) :
        /\ input.data[p[1]].sgn # 0
        /\ input.data[p[2]].sgn # 0
        /\ input.data[p[1]].lg <= input.data[p[2]].lg}

\* the scale of element k of the call's input
TierOf(k) ==
    LET clamped == ClampData(input.data)
    IN  TierScale(clamped[k].lg, MaxLog(clamped))

C15_OrderKeptWithinTier ==
    CalledOnMatrix =>
        \A p \in Ordered :
            TierOf(p[1]) = TierOf(p[2]) =>
                output.data[p[1]].lg <= output.data[p[2]].lg

\* the claim as first stated
C15_OrderKept ==
    CalledOnMatrix =>
        \A p \in Ordered : output.data[p[1]].lg <= output.data[p[2]].lg

\* under the maximum 10.207, 5.195 is of the Low tier and comes out as
\* 5.25, and the larger 5.211 is of the High tier and comes out as 5.1875;
\* 5.195 and 5.207, both of the Low tier, keep their order
C15_Witness ==
    /\ pc = "applied"
    /\ input = Tensor(2, <<Real(1, 10 * Unit + 53), Real(1, 5 * Unit + 50),
                           Real(1, 5 * Unit + 54)>>)
    /\ output = Tensor(2, <<Real(1, 10 * Unit + 52), Real(1, 5 * Unit + 64),
                            Real(1, 5 * Unit + 48)>>)

(***************************************************************************)
(* C16.  Input not mutated: a forward call leaves the tensor or tuple it   *)
(* is given with the values it had before the call, on a first call and on *)
(* a call on the returned value alike, the clamp and the write-back of the *)
(* rounded values acting on other tensors; and backward leaves grad_output *)
(* with the values it had.                                                 *)
(***************************************************************************)
C16_InputNotMutated ==
    /\ [][(pc = "apply" /\ pc' = "applied") => input' = input]_vars
    /\ [][(pc = "applied" /\ pc' = "reapplied") => input' = output]_vars
    /\ [][(pc = "grad" /\ pc' = "backpropagated") => grad_output' = grad_output]_vars

\* forward has clamped and rounded, backward has run, and the tensor and
\* the gradient passed in are what they were
C16_Witness ==
    /\ pc = "backpropagated"
    /\ input = Tensor(3, <<Real(-1, 17 * Unit), Real(1, 6 * Unit + 53)>>)
    /\ output = Tensor(3, <<Real(-1, 16 * Unit), Real(1, 6 * Unit + 64)>>)
    /\ grad_output = Tensor(2, <<Real(-1, 17 * Unit)>>)
    /\ grad_input = grad_output

=============================================================================
